---- MODULE Spec2Model ----
(***************************************************************************)
(* A model of the dataset-assembly script src/dataset.py: the enumeration  *)
(* of the image directory, the shuffle, the train/validation split, the    *)
(* per-image loop of process_images (detection, crop export, image copy,   *)
(* annotation encoding over the global class_counter / class_map) and the  *)
(* emission of dataset.yaml.                                               *)
(*                                                                         *)
(* File names are sequences of one-character strings, so that the suffix   *)
(* test of the enumerator and os.path.splitext are computed, not assumed.  *)
(* A Python dict is a sequence of <<key, value>> pairs in insertion order. *)
(***************************************************************************)
EXTENDS Integers, Sequences, FiniteSets, TLC

(***************************************************************************)
(* Bounds of the model.                                                    *)
(***************************************************************************)
\* largest number of entries of the image directory (main specification)
MaxFiles == 3
\* largest number of contours cv2.findContours yields for one image
MaxContours == 2
\* largest number of directory entries in the split-only specification
MaxSplitFiles == 5

(***************************************************************************)
(* File names.                                                             *)
(***************************************************************************)
DotPng == <<".", "p", "n", "g">>
DotJpg == <<".", "j", "p", "g">>
DotJpeg == <<".", "j", "p", "e", "g">>
DotPNG == <<".", "P", "N", "G">>
DotTxt == <<".", "t", "x", "t">>

\* the suffixes of the enumerator's filter
ImageSuffixes == {DotPng, DotJpg, DotJpeg}

\* directory entries the image directory may hold (main specification)
Pool ==
    { <<"a">> \o DotPng, <<"a">> \o DotJpg, <<"b">> \o DotJpeg,
      <<"b">> \o DotPng, <<"A">> \o DotPNG, <<"c">> \o DotTxt }

\* directory entries of the split-only specification
SplitPool ==
    Pool \cup { <<"a">> \o DotJpeg, <<"b">> \o DotJpg }

\* str.endswith(suffix), case-sensitive
EndsWith(s, suf) ==
    /\ Len(s) >= Len(suf)
    /\ SubSeq(s, Len(s) - Len(suf) + 1, Len(s)) = suf

\* str.endswith(tuple of suffixes)
EndsWithAny(s, sufs) == \E suf \in sufs : EndsWith(s, suf)

\* str.lower() on the characters the pools use
LowerChar(c) ==
    CASE c = "A" -> "a"
      [] c = "P" -> "p"
      [] c = "N" -> "n"
      [] c = "G" -> "g"
      [] OTHER -> c

Lower(s) == [k \in 1..Len(s) |-> LowerChar(s[k])]

\* os.path.splitext(name)[0] for a name without directory separator: the part
\* before the last dot, unless only dots precede that dot
SplitExtRoot(name) ==
    LET dots == {k \in 1..Len(name) : name[k] = "."}
    IN  IF dots = {}
        THEN name
        ELSE LET dotIndex == CHOOSE k \in dots : \A m \in dots : m <= k
             IN  IF \E k \in 1..(dotIndex - 1) : name[k] # "."
                 THEN SubSeq(name, 1, dotIndex - 1)
                 ELSE name

\* the enumerator's filter: f.endswith((".png", ".jpg", ".jpeg"))
IsImageFile(f) == EndsWithAny(f, ImageSuffixes)

\* all orderings of a finite set, as sequences
RECURSIVE Perms(_)
Perms(S) ==
    IF S = {}
    THEN {<<>>}
    ELSE UNION {{<<x>> \o q : q \in Perms(S \ {x})} : x \in S}

\* the elements of a sequence
Range(s) == {s[k] : k \in 1..Len(s)}

(***************************************************************************)
(* Images and detection.                                                   *)
(***************************************************************************)
\* cv2.imread returns None for a file it cannot decode
None == [decoded |-> FALSE, shape |-> <<>>, contours |-> <<>>]

\* no file name: the loop variable image_file before the first iteration
NoFile == <<>>

\* bounding rectangles <<x, y, w, h>> of the contours an image may have
RectPool == { <<0, 0, 20, 20>>, <<2, 3, 21, 21>>, <<10, 5, 30, 40>> }

\* <<width, height>> of the images
Shapes == { <<64, 48>> }

\* sequences over S of length at most n
SeqsUpTo(S, n) == UNION {[1..k -> S] : k \in 0..n}

\* the sequences of SeqsUpTo(S, n) without repetition
DistinctSeqsUpTo(S, n) ==
    {c \in SeqsUpTo(S, n) : \A a, b \in 1..Len(c) : a # b => c[a] # c[b]}

\* what cv2.imread can return for a file of the directory: a decoded image,
\* given by its shape and the bounding rectangles of its contours in
\* cv2.findContours order (here: contours with pairwise different rectangles)
DecodedImages ==
    {[decoded |-> TRUE, shape |-> s, contours |-> c] :
        s \in Shapes, c \in DistinctSeqsUpTo(RectPool, MaxContours)}

ImreadResults == DecodedImages \cup {None}

\* the size filter of detect_objects
MinSize == 20

\* a filter that keeps a side of exactly MinSize
KeepRectInclusive(r) == r[3] >= MinSize /\ r[4] >= MinSize

KeepRect(r) == r[3] > MinSize /\ r[4] > MinSize

\* cv2.cvtColor raises cv2.error on the None that cv2.imread returned
DecodeFails(image) == image = None

\* detect_objects on a decoded image: the bounding rectangles that pass the
\* size filter, in contour order
detect_objects(image) == SelectSeq(image.contours, KeepRect)

(***************************************************************************)
(* Artifacts.                                                              *)
(***************************************************************************)
\* the two splits: "train" is images/train + labels/train, "val" is
\* images/val + labels/val
Splits == {"train", "val"}

\* a crop file name that leaves the index out: every crop of an image goes
\* to the same file
CroppedFilenameNoIndex(image_id, idx) == <<image_id, "_object_", 1, ".png">>

\* cropped_filename = f"{image_id}_object_{idx + 1}.png"
CroppedFilename(image_id, idx) == <<image_id, "_object_", idx + 1, ".png">>

\* a class_map key numbered from 0
ObjectKeyZeroBased(image_id, idx) == <<image_id, "_object_", idx>>

\* the class_map key f"{image_id}_object_{idx + 1}"
ObjectKey(image_id, idx) == <<image_id, "_object_", idx + 1>>

\* the annotation file name f"{image_id}.txt"
AnnotationName(image_id) == <<image_id, ".txt">>

\* image[y:y+h, x:x+w]: the pixels of one rectangle of one image file
Crop(image_file, r) == [of |-> image_file, rect |-> r]

\* a quotient the code computes in floating point, kept as <<numerator, denominator>>
Frac(n, d) == <<n, d>>

\* the normalisation with height and width taken from image.shape in the
\* wrong order
AnnotationLineSwapped(class_id, r, shape) ==
    [ class_id   |-> class_id,
      x_center   |-> Frac(2 * r[1] + r[3], 2 * shape[2]),
      y_center   |-> Frac(2 * r[2] + r[4], 2 * shape[1]),
      box_width  |-> Frac(r[3], shape[2]),
      box_height |-> Frac(r[4], shape[1]) ]

\* one annotation line: class_id, (x + w / 2) / width, (y + h / 2) / height,
\* w / width, h / height
AnnotationLine(class_id, r, shape) ==
    [ class_id   |-> class_id,
      x_center   |-> Frac(2 * r[1] + r[3], 2 * shape[1]),
      y_center   |-> Frac(2 * r[2] + r[4], 2 * shape[2]),
      box_width  |-> Frac(r[3], shape[1]),
      box_height |-> Frac(r[4], shape[2]) ]

\* d[k] = v on a Python dict: an existing key keeps its place and takes the
\* new value, a new key is appended
DictSet(d, k, v) ==
    IF \E n \in 1..Len(d) : d[n][1] = k
    THEN [n \in 1..Len(d) |-> IF d[n][1] = k THEN <<k, v>> ELSE d[n]]
    ELSE Append(d, <<k, v>>)

\* a counter that is never incremented
NextClassIdStuck(class_id) == class_id

\* class_counter += 1
NextClassId(class_id) == class_id + 1

\* a write that recreates the directory: only the new file is left in it
WriteFileIntoFreshDir(dir, name, content) == (name :> content)

\* cv2.imwrite(path, ...) and open(path, "w"): the file at that path is
\* created or replaced, every other file of the directory is left alone
WriteFile(dir, name, content) == (name :> content) @@ dir

\* the loop of save_cropped_objects from index idx on: one crop file per
\* detected object, written into unknown_objects_dir; lost holds the 1-based
\* positions whose cv2.imwrite returned False (it does not raise when the
\* file cannot be written), so that no file was written and the loop went on
RECURSIVE save_cropped_objects(_, _, _, _, _, _)
save_cropped_objects(dir, image_file, objs, image_id, idx, lost) ==
    IF idx >= Len(objs)
    THEN dir
    ELSE save_cropped_objects(
             IF idx + 1 \in lost
             THEN dir
             ELSE WriteFile(dir, CroppedFilename(image_id, idx), Crop(image_file, objs[idx + 1])),
             image_file, objs, image_id, idx + 1, lost)

\* the annotation loop of process_images from index idx on; st carries the
\* global class_counter and class_map, the lines written to the open
\* annotation file and the trace of all lines written in the run
RECURSIVE AnnotationLoop(_, _, _, _, _, _)
AnnotationLoop(st, image_file, objs, image_id, shape, idx) ==
    IF idx >= Len(objs)
    THEN st
    ELSE LET class_id == st.class_counter
         IN  AnnotationLoop(
                 [ class_counter |-> NextClassId(st.class_counter),
                   class_map     |-> DictSet(st.class_map, ObjectKey(image_id, idx), class_id),
                   lines         |-> Append(st.lines, AnnotationLine(class_id, objs[idx + 1], shape)),
                   encoded       |-> Append(st.encoded, <<image_file, idx + 1, class_id>>) ],
                 image_file, objs, image_id, shape, idx + 1)

\* a loop without the early continue
SkipsImageNever(objs) == FALSE

\* if not detected_objects: continue
SkipsImage(objs) == objs = <<>>

(***************************************************************************)
(* The split.                                                              *)
(***************************************************************************)
\* split_ratio = 0.8, as the quotient 8 / 10
split_ratio == <<8, 10>>

\* round(len(image_files) * split_ratio)
SplitIndexRounded(n) == (2 * n * split_ratio[1] + split_ratio[2]) \div (2 * split_ratio[2])

\* int(len(image_files) * split_ratio)
SplitIndex(n) == (n * split_ratio[1]) \div split_ratio[2]

\* image_files[:split_index]
TrainSlice(files, k) == SubSeq(files, 1, k)

\* a validation slice that starts one entry early
ValSliceOverlap(files, k) == IF k = 0 THEN files ELSE SubSeq(files, k, Len(files))

\* image_files[split_index:]
ValSlice(files, k) == SubSeq(files, k + 1, Len(files))

(***************************************************************************)
(* State.                                                                  *)
(***************************************************************************)
VARIABLES
    pc,               \* position of the script
    image_dir,        \* the entries of the image directory
    image_files,      \* the enumerated (then shuffled) file names
    split_index,      \* int(len(image_files) * split_ratio), 0 before the split
    train_files,      \* image_files[:split_index]
    val_files,        \* image_files[split_index:]
    i,                \* 1-based position of process_images in its files
    image_file,       \* the file process_images read last, NoFile before
    image,            \* what cv2.imread returned for it
    detected_objects, \* what detect_objects returned last
    class_counter,    \* the global placeholder ID counter
    class_map,        \* the global Label Map, a dict
    unknown_objects,  \* unknown_objects_dir: crop file name -> pixels
    images,           \* images/<split>: the file names copied there
    labels,           \* labels/<split>: annotation file name -> lines
    yaml,             \* dataset.yaml: <<>> until written, then <<its content>>
    encoded,          \* every annotation line written, in write order
    accounts,         \* the influencer_social_accounts table, row id = position
    reply,            \* what the last call of the YouTube service returned or raised
    now,              \* datetime.utcnow(), as the number of calls served
    session           \* the attribute session of the two repositories

vars ==
    << pc, image_dir, image_files, split_index, train_files, val_files, i,
       image_file, image, detected_objects, class_counter, class_map,
       unknown_objects, images, labels, yaml, encoded, accounts, reply, now,
       session >>

\* the state of the YouTube service, which the dataset script never touches
service_vars == << accounts, reply, now, session >>

\* no call served yet
NoReply == [op |-> "none", account_id |-> 0, raised |-> "none", step |-> "none"]

\* BaseRepository.__init__(self, model) stores its argument as self.model:
\* a repository built as InfluencerSocialAccountRepository(session) has no
\* attribute session unless its creator assigns one afterwards
Unset == "unset"
Bound == "bound"

\* a function with no argument: an empty directory
EmptyDir == [x \in {} |-> x]

InitWith(entries) ==
    /\ pc = "list"
    /\ image_dir = entries
    /\ image_files = <<>>
    /\ split_index = 0
    /\ train_files = <<>>
    /\ val_files = <<>>
    /\ i = 1
    /\ image_file = NoFile
    /\ image = None
    /\ detected_objects = <<>>
    /\ class_counter = 0
    /\ class_map = <<>>
    /\ unknown_objects = EmptyDir
    /\ images = [s \in Splits |-> {}]
    /\ labels = [s \in Splits |-> EmptyDir]
    /\ yaml = <<>>
    /\ encoded = <<>>

\* the service before its first call, on an empty table
ServiceIdle ==
    /\ accounts = <<>>
    /\ reply = NoReply
    /\ now = 0
    /\ session = Unset

Init ==
    /\ \E entries \in {S \in SUBSET Pool : Cardinality(S) <= MaxFiles} : InitWith(entries)
    /\ ServiceIdle

artifacts == << class_counter, class_map, unknown_objects, images, labels, yaml, encoded >>
loop_vars == << i, image_file, image, detected_objects >>
split_vars == << split_index, train_files, val_files >>

\* image_files = [f for f in os.listdir(image_dir) if f.endswith(...)];
\* os.listdir returns the entries in arbitrary order
ListImages ==
    /\ pc = "list"
    /\ image_files' \in Perms({f \in image_dir : IsImageFile(f)})
    /\ pc' = "shuffle"
    /\ UNCHANGED << image_dir, split_vars, loop_vars, artifacts, service_vars >>

\* random.shuffle(image_files)
Shuffle ==
    /\ pc = "shuffle"
    /\ image_files' \in Perms(Range(image_files))
    /\ pc' = "split"
    /\ UNCHANGED << image_dir, split_vars, loop_vars, artifacts, service_vars >>

\* split_index, train_files, val_files
Split ==
    /\ pc = "split"
    /\ split_index' = SplitIndex(Len(image_files))
    /\ train_files' = TrainSlice(image_files, split_index')
    /\ val_files' = ValSlice(image_files, split_index')
    /\ pc' = "train"
    /\ i' = 1
    /\ UNCHANGED << image_dir, image_files, image_file, image, detected_objects, artifacts,
                    service_vars >>

\* a decode error that is caught and the image skipped
DecodeErrorSkipped(at, idx) == [pc |-> at, i |-> idx + 1]

\* an exception nobody catches ends the script: nothing after it runs
DecodeErrorOutcome(at, idx) == [pc |-> "failed", i |-> idx]

\* dataset_dir, and the two relative image paths written to dataset.yaml
YamlHeader == [path |-> "/content/dataset", train |-> "images/train", val |-> "images/val"]

\* the names block: one "<class_id>: <obj_id>" line per item of class_map.items()
YamlNames(map) == [n \in 1..Len(map) |-> <<map[n][2], map[n][1]>>]

\* a copy that writes nothing
ShutilCopySkipped(dir, f) == dir

\* shutil.copy(image_path, output_image_path): the file name is kept, so the
\* image directory gains (or keeps) an entry of that name
ShutilCopy(dir, f) == dir \cup {f}

\* the I/O calls of one iteration that can fail
IOFaults == {"imwrite", "copy", "open", "write"}

\* how the I/O of one iteration over n detected objects can go when the calls
\* in faults may fail:
\*   lost  the crops whose cv2.imwrite returned False (at most one here);
\*   stop  the call that raised OSError and ended the script: shutil.copy
\*         ("copy"), open(annotation_file, "w") ("open"), f.write or the
\*         close at the end of the with block ("write"), or "none";
\*   torn  a failed shutil.copy left a truncated file in the image directory;
\*   k     the f.write calls that returned before the error;
\*   j     the lines that reached the disk (buffered writes: j <= k)
IOPlans(n, faults) ==
    LET losts == IF "imwrite" \in faults
                 THEN {L \in SUBSET (1..n) : Cardinality(L) <= 1}
                 ELSE {{}}
        plan(L, s, t, k, j) == [lost |-> L, stop |-> s, torn |-> t, k |-> k, j |-> j]
    IN  {plan(L, "none", FALSE, n, n) : L \in losts}
        \cup (IF "copy" \in faults
              THEN {plan(L, "copy", t, 0, 0) : L \in losts, t \in BOOLEAN}
              ELSE {})
        \cup (IF "open" \in faults
              THEN {plan(L, "open", FALSE, 0, 0) : L \in losts}
              ELSE {})
        \cup (IF "write" \in faults
              THEN UNION {{plan(L, "write", FALSE, k, j) : L \in losts, j \in 0..k} : k \in 0..n}
              ELSE {})

\* an OSError that is caught and ignored: the loop goes on to the next image
IOErrorSwallowed(stop, at, idx) == [pc |-> at, i |-> idx + 1]

\* nothing in process_images catches an exception: an OSError raised by
\* shutil.copy, open or f.write ends the script inside the iteration, and an
\* iteration without one goes on to the next image
IOErrorOutcome(stop, at, idx) ==
    IF stop = "none"
    THEN [pc |-> at, i |-> idx + 1]
    ELSE [pc |-> "failed", i |-> idx]

\* the objects whose class_id was allocated when the annotation loop ended:
\* all of them, or, when f.write raised after k lines, k + 1 (class_counter
\* is incremented before the write)
Allocated(n, io) ==
    IF io.stop = "write" /\ io.k < n THEN io.k + 1 ELSE n

\* one iteration of the loop of process_images(files, images/<split>,
\* labels/<split>), with cv2.imread returning one of results and the I/O
\* calls in faults allowed to fail
ProcessImageWith(files, split, faults, results) ==
    /\ pc = split
    /\ i <= Len(files)
    /\ \E img \in results :
         LET f == files[i]
             image_id == SplitExtRoot(f)
         IN  /\ image_file' = f
             /\ image' = img
             /\ IF DecodeFails(img)
                THEN /\ pc' = DecodeErrorOutcome(pc, i).pc
                     /\ i' = DecodeErrorOutcome(pc, i).i
                     /\ UNCHANGED << detected_objects, artifacts >>
                ELSE LET objs == detect_objects(img)
                     IN  /\ detected_objects' = objs
                         /\ IF SkipsImage(objs)
                            THEN /\ pc' = pc
                                 /\ i' = i + 1
                                 /\ UNCHANGED artifacts
                            ELSE \E io \in IOPlans(Len(objs), faults) :
                                   LET all == AnnotationLoop(
                                                  [ class_counter |-> class_counter,
                                                    class_map     |-> class_map,
                                                    lines         |-> <<>>,
                                                    encoded       |-> encoded ],
                                                  f, SubSeq(objs, 1, Allocated(Len(objs), io)),
                                                  image_id, img.shape, 0)
                                       written == SubSeq(all.encoded, 1, Len(encoded) + io.k)
                                       ondisk == SubSeq(all.lines, 1, io.j)
                                   IN  /\ unknown_objects' =
                                              save_cropped_objects(unknown_objects, f, objs,
                                                                   image_id, 0, io.lost)
                                       /\ images' =
                                              IF io.stop = "copy" /\ ~io.torn
                                              THEN images
                                              ELSE [images EXCEPT ![split] = ShutilCopy(@, f)]
                                       /\ IF io.stop \in {"copy", "open"}
                                          THEN UNCHANGED << labels, class_counter, class_map, encoded >>
                                          ELSE /\ labels' = [labels EXCEPT ![split] =
                                                      WriteFile(@, AnnotationName(image_id), ondisk)]
                                               /\ class_counter' = all.class_counter
                                               /\ class_map' = all.class_map
                                               /\ encoded' = written
                                       /\ pc' = IOErrorOutcome(io.stop, pc, i).pc
                                       /\ i' = IOErrorOutcome(io.stop, pc, i).i
                                       /\ UNCHANGED yaml
    /\ UNCHANGED << image_dir, image_files, split_vars, service_vars >>

\* one iteration when every I/O call succeeds
ProcessImage(files, split) == ProcessImageWith(files, split, {}, ImreadResults)

\* process_images(train_files, train_images_dir, train_labels_dir)
ProcessTrain == ProcessImage(train_files, "train")

\* process_images(val_files, val_images_dir, val_labels_dir)
ProcessVal == ProcessImage(val_files, "val")

\* a return that starts the next pass with a fresh counter
ProcessReturnResetCounter(files, split, next) ==
    /\ pc = split
    /\ i > Len(files)
    /\ pc' = next
    /\ i' = 1
    /\ class_counter' = 0
    /\ UNCHANGED << image_dir, image_files, split_vars, image_file, image,
                    detected_objects, class_map, unknown_objects, images, labels,
                    yaml, encoded, service_vars >>

\* the loop of process_images is exhausted and the call returns
ProcessReturn(files, split, next) ==
    /\ pc = split
    /\ i > Len(files)
    /\ pc' = next
    /\ i' = 1
    /\ UNCHANGED << image_dir, image_files, split_vars, image_file, image,
                    detected_objects, artifacts, service_vars >>

TrainReturn == ProcessReturn(train_files, "train", "val")

ValReturn == ProcessReturn(val_files, "val", "yaml")

\* dataset.yaml is written after both passes
WriteYaml ==
    /\ pc = "yaml"
    /\ yaml' = <<[header |-> YamlHeader, names |-> YamlNames(class_map)]>>
    /\ pc' = "done"
    /\ UNCHANGED << image_dir, image_files, split_vars, loop_vars, class_counter,
                    class_map, unknown_objects, images, labels, encoded, service_vars >>

Next ==
    \/ ListImages
    \/ Shuffle
    \/ Split
    \/ ProcessTrain
    \/ TrainReturn
    \/ ProcessVal
    \/ ValReturn
    \/ WriteYaml

Spec == Init /\ [][Next]_vars

(***************************************************************************)
(* The enumeration and the split alone, over larger directories.           *)
(***************************************************************************)
InitSplit ==
    /\ \E entries \in {S \in SUBSET SplitPool : Cardinality(S) <= MaxSplitFiles} : InitWith(entries)
    /\ ServiceIdle

NextSplit ==
    \/ ListImages
    \/ Shuffle
    \/ Split

SpecSplit == InitSplit /\ [][NextSplit]_vars

(***************************************************************************)
(* The run with failing I/O: cv2.imwrite may return False, and             *)
(* shutil.copy, open and f.write may raise OSError.                        *)
(***************************************************************************)
IOPool == { <<"a">> \o DotPng, <<"a">> \o DotJpg, <<"c">> \o DotTxt }

InitIO ==
    /\ \E entries \in SUBSET IOPool : InitWith(entries)
    /\ ServiceIdle

ProcessTrainIO == ProcessImageWith(train_files, "train", IOFaults, ImreadResults)

ProcessValIO == ProcessImageWith(val_files, "val", IOFaults, ImreadResults)

NextIO ==
    \/ ListImages
    \/ Shuffle
    \/ Split
    \/ ProcessTrainIO
    \/ TrainReturn
    \/ ProcessValIO
    \/ ValReturn
    \/ WriteYaml

SpecIO == InitIO /\ [][NextIO]_vars

(***************************************************************************)
(* One image, over many contour lists and shapes: the directory holds the  *)
(* single file a.png, which the split puts into the validation slice       *)
(* (int(1 * 0.8) = 0), and the empty train pass has returned.              *)
(***************************************************************************)
MaxSide == 23
MaxOrigin == 2

\* images with one contour whose bounding rectangle lies inside the image
\* or sticks out of it
EncodeImages ==
    {[decoded |-> TRUE, shape |-> <<W, H>>, contours |-> << <<x, y, w, h>> >>] :
        W \in (MinSize + 1)..MaxSide, H \in (MinSize + 1)..MaxSide,
        x \in 0..MaxOrigin, y \in 0..MaxOrigin,
        w \in MinSize..MaxSide, h \in MinSize..MaxSide}

\* bounding rectangles around the size filter's threshold, two of them
\* overlapping
DetectRects ==
    { <<0, 0, 15, 15>>, <<0, 0, 20, 20>>, <<0, 0, 21, 21>>, <<1, 1, 21, 20>>,
      <<1, 1, 20, 21>>, <<5, 5, 30, 40>> }

\* images whose contour list may hold the same rectangle more than once
DetectImages ==
    {[decoded |-> TRUE, shape |-> s, contours |-> c] :
        s \in Shapes, c \in SeqsUpTo(DetectRects, MaxContours)}

OneImage == <<"a">> \o DotPng

InitImage ==
    /\ pc = "val"
    /\ image_dir = {OneImage}
    /\ image_files = <<OneImage>>
    /\ split_index = SplitIndex(1)
    /\ train_files = TrainSlice(<<OneImage>>, SplitIndex(1))
    /\ val_files = ValSlice(<<OneImage>>, SplitIndex(1))
    /\ i = 1
    /\ image_file = NoFile
    /\ image = None
    /\ detected_objects = <<>>
    /\ class_counter = 0
    /\ class_map = <<>>
    /\ unknown_objects = EmptyDir
    /\ images = [s \in Splits |-> {}]
    /\ labels = [s \in Splits |-> EmptyDir]
    /\ yaml = <<>>
    /\ encoded = <<>>
    /\ ServiceIdle

ProcessValImage == ProcessImageWith(val_files, "val", {}, EncodeImages \cup DetectImages)

NextImage ==
    \/ ProcessValImage
    \/ ValReturn
    \/ WriteYaml

SpecImage == InitImage /\ [][NextImage]_vars

(***************************************************************************)
(* A re-run: the dataset root already holds what an earlier run of the     *)
(* script wrote; os.makedirs(..., exist_ok=True) keeps it, and             *)
(* class_counter and class_map start again from 0 and {}.                  *)
(***************************************************************************)
RerunPool == { <<"a">> \o DotPng, <<"b">> \o DotPng, <<"c">> \o DotTxt }

\* what a run left behind that put the image first into train and the image
\* second into validation and found the regions objs1 and objs2 in them
PrevRun(first, second, objs1, objs2) ==
    LET shape == CHOOSE sh \in Shapes : TRUE
        st1 == AnnotationLoop([class_counter |-> 0, class_map |-> <<>>,
                               lines |-> <<>>, encoded |-> <<>>],
                              first, objs1, SplitExtRoot(first), shape, 0)
        st2 == AnnotationLoop([class_counter |-> st1.class_counter, class_map |-> st1.class_map,
                               lines |-> <<>>, encoded |-> st1.encoded],
                              second, objs2, SplitExtRoot(second), shape, 0)
    IN  [ unknown_objects |->
              save_cropped_objects(
                  save_cropped_objects(EmptyDir, first, objs1, SplitExtRoot(first), 0, {}),
                  second, objs2, SplitExtRoot(second), 0, {}),
          images |-> [s \in Splits |-> IF s = "train" THEN {first} ELSE {second}],
          labels |-> [s \in Splits |->
                         IF s = "train"
                         THEN WriteFile(EmptyDir, AnnotationName(SplitExtRoot(first)), st1.lines)
                         ELSE WriteFile(EmptyDir, AnnotationName(SplitExtRoot(second)), st2.lines)],
          yaml |-> <<[header |-> YamlHeader, names |-> YamlNames(st2.class_map)]>> ]

PrevRoots ==
    { PrevRun(<<"a">> \o DotPng, <<"b">> \o DotPng,
              << <<2, 3, 21, 21>>, <<10, 5, 30, 40>> >>, << <<10, 5, 30, 40>> >>),
      PrevRun(<<"b">> \o DotPng, <<"d">> \o DotPng,
              << <<2, 3, 21, 21>> >>, << <<2, 3, 21, 21>>, <<10, 5, 30, 40>> >>) }

InitRerun ==
    /\ \E entries \in SUBSET RerunPool, root \in PrevRoots :
         /\ image_dir = entries
         /\ unknown_objects = root.unknown_objects
         /\ images = root.images
         /\ labels = root.labels
         /\ yaml = root.yaml
    /\ pc = "list"
    /\ image_files = <<>>
    /\ split_index = 0
    /\ train_files = <<>>
    /\ val_files = <<>>
    /\ i = 1
    /\ image_file = NoFile
    /\ image = None
    /\ detected_objects = <<>>
    /\ class_counter = 0
    /\ class_map = <<>>
    /\ encoded = <<>>
    /\ ServiceIdle

SpecRerun == InitRerun /\ [][Next]_vars

(***************************************************************************)
(* The YouTube service and the table influencer_social_accounts behind     *)
(* its repository.  A row's id is its position in the table.  Each call    *)
(* is served to the end before the next one starts.                        *)
(***************************************************************************)
MaxCalls == 3

\* AccountStatus
CONNECTED == "CONNECTED"
DISCONNECTED == "DISCONNECTED"

\* the id of the platform row that platform_repo.get_by_name("YouTube") returns
YouTubeId == "youtube"

Influencers == {"inf1", "inf2"}

\* channels().list items
Channels ==
    { [id |-> "UC1", title |-> "alice"],
      [id |-> "UC2", title |-> "bob"] }

\* statistics.viewCount, subscriberCount and videoCount of a channel
StatsPool ==
    { [views |-> 5, subs |-> 10, videos |-> 3],
      [views |-> 90, subs |-> 10, videos |-> 2] }

\* expires_in of the token response, in calls
ExpiresIn == {1, 9}

\* n / d rounded to the nearest integer
RoundDiv(n, d) == (2 * n + d) \div (2 * d)

Min(a, b) == IF a <= b THEN a ELSE b

\* round((total_views / (subscribers * videos)) * 100, 2), capped at 100 and
\* 0 without subscribers or videos; in hundredths of a percent
EngagementRate(st) ==
    IF st.subs > 0 /\ st.videos > 0
    THEN Min(RoundDiv(st.views * 10000, st.subs * st.videos), 10000)
    ELSE 0

\* what channels().list(...).execute() does: it raises, returns no item, or
\* returns the channel with its statistics
NoChannel == [id |-> "", title |-> ""]
NoStats == [views |-> 0, subs |-> 0, videos |-> 0]

FetchResults(channels) ==
    { [kind |-> "error", channel |-> NoChannel, stats |-> NoStats],
      [kind |-> "empty", channel |-> NoChannel, stats |-> NoStats] }
    \cup {[kind |-> "items", channel |-> c, stats |-> st] : c \in channels, st \in StatsPool}

\* how repository.create and repository.update can end: both awaits return
\* ("ok"), db.commit() raises and nothing is stored ("commit"), or
\* db.refresh() raises after the commit has stored the row ("refresh")
WriteOutcomes == {"ok", "commit", "refresh"}

\* a row that came into the table through another integration
OtherPlatformRow ==
    [ influencer_id   |-> "inf1",
      platform_id     |-> "instagram",
      username        |-> "alice",
      account_status  |-> CONNECTED,
      token           |-> [valid |-> FALSE, expiry |-> 0],
      platform_data   |-> [channel_id |-> "ig1", title |-> "alice", stats |-> NoStats],
      followers_count |-> 0,
      engagement_rate |-> 0,
      last_synced     |-> 0 ]

InitialTables == { <<>>, <<OtherPlatformRow>> }

\* the rows selected by get_by_platform_and_username
get_by_platform_and_username(table, platform_id, username) ==
    {n \in 1..Len(table) : table[n].platform_id = platform_id /\ table[n].username = username}

\* update(..., obj_in={"account_status": AccountStatus.DISCONNECTED})
Disconnect(row) == [row EXCEPT !.account_status = DISCONNECTED]

\* what a call leaves behind: the table, the exception it raised ("none"
\* when it returned) and the step at which it went wrong
Outcome(table, raised, step) == [accounts |-> table, raised |-> raised, step |-> step]

\* handle_oauth_callback(influencer_id, auth_code): the token exchange
\* returns expires_in or fails (exchange = 0), the platform row is found or
\* not, channels().list(mine=True) gives fetch, and the write ends as w.
\* Every exception raised inside is re-raised as ValueError.
handle_oauth_callback(table, sess, influencer_id, exchange, platform_found, fetch, w, t) ==
    IF exchange = 0
    THEN Outcome(table, "ValueError", "token")
    ELSE IF sess = Unset
    THEN Outcome(table, "ValueError", "session")
    ELSE IF ~platform_found
    THEN Outcome(table, "ValueError", "platform")
    ELSE IF fetch.kind = "error"
    THEN Outcome(table, "ValueError", "fetch")
    ELSE IF fetch.kind = "empty"
    THEN Outcome(table, "ValueError", "empty")
    ELSE LET username == fetch.channel.title
             existing == get_by_platform_and_username(table, YouTubeId, username)
             token == [valid |-> TRUE, expiry |-> t + exchange]
             platform_data == [channel_id |-> fetch.channel.id, title |-> fetch.channel.title,
                               stats |-> fetch.stats]
         IN  IF Cardinality(existing) > 1
             THEN Outcome(table, "ValueError", "lookup")
             ELSE IF w = "commit"
             THEN Outcome(table, "ValueError", "commit")
             ELSE LET written ==
                          IF existing # {}
                          THEN LET id == CHOOSE n \in existing : TRUE
                               IN  [table EXCEPT ![id] =
                                       [@ EXCEPT !.token = token,
                                                 !.account_status = CONNECTED,
                                                 !.platform_data = platform_data,
                                                 !.followers_count = fetch.stats.subs,
                                                 !.engagement_rate = EngagementRate(fetch.stats),
                                                 !.last_synced = t]]
                          ELSE Append(table,
                                   [ influencer_id   |-> influencer_id,
                                     platform_id     |-> YouTubeId,
                                     username        |-> username,
                                     account_status  |-> CONNECTED,
                                     token           |-> token,
                                     platform_data   |-> platform_data,
                                     followers_count |-> fetch.stats.subs,
                                     engagement_rate |-> EngagementRate(fetch.stats),
                                     last_synced     |-> t ])
                  IN  IF w = "ok"
                      THEN Outcome(written, "none", "none")
                      ELSE Outcome(written, "ValueError", "refresh")

\* the test both readers and refresh_account_data make after
\* social_account_repo.get: "not account or account.account_status !=
\* AccountStatus.CONNECTED"
Rejected(table, account_id) ==
    \/ account_id \notin 1..Len(table)
    \/ table[account_id].account_status # CONNECTED

\* refresh_account_data(account_id): channels().list(id=channel_id) gives
\* fetch, the final update ends as w and, when a step of the try block
\* raised, the update of the except block ends as h
refresh_account_data(table, sess, account_id, fetch, w, h, t) ==
    IF sess = Unset
    THEN Outcome(table, "AttributeError", "session")
    ELSE IF Rejected(table, account_id)
    THEN Outcome(table, "ValueError", "guard")
    ELSE LET account == table[account_id]
             step == IF ~account.token.valid THEN "token"
                     ELSE IF account.token.expiry < t THEN "credentials"
                     ELSE IF fetch.kind = "error" THEN "fetch"
                     ELSE IF fetch.kind = "empty" THEN "empty"
                     ELSE IF w = "commit" THEN "commit"
                     ELSE IF w = "refresh" THEN "refresh"
                     ELSE "none"
             updated == [account EXCEPT
                            !.platform_data = [channel_id |-> fetch.channel.id,
                                               title |-> fetch.channel.title,
                                               stats |-> fetch.stats],
                            !.followers_count = fetch.stats.subs,
                            !.engagement_rate = EngagementRate(fetch.stats),
                            !.last_synced = t]
             tried == IF step \in {"none", "refresh"}
                      THEN [table EXCEPT ![account_id] = updated]
                      ELSE table
         IN  IF step = "none"
             THEN Outcome(tried, "none", "none")
             ELSE IF h = "ok"
             THEN Outcome([tried EXCEPT ![account_id] = Disconnect(@)], "ValueError", step)
             ELSE IF h = "commit"
             THEN Outcome(tried, "DBError", step)
             ELSE Outcome([tried EXCEPT ![account_id] = Disconnect(@)], "DBError", step)

\* get_recent_videos(account_id) and get_channel_analytics(account_id),
\* which calls it: after the test they only read from the API, which
\* answers (api_ok) or raises
read_account(table, sess, account_id, api_ok) ==
    IF sess = Unset
    THEN Outcome(table, "AttributeError", "session")
    ELSE IF Rejected(table, account_id)
    THEN Outcome(table, "ValueError", "guard")
    ELSE IF api_ok
    THEN Outcome(table, "none", "none")
    ELSE Outcome(table, "HttpError", "fetch")

dataset_vars ==
    << pc, image_dir, image_files, split_index, train_files, val_files, i,
       image_file, image, detected_objects, class_counter, class_map,
       unknown_objects, images, labels, yaml, encoded >>

\* a call is served: the table and the reply are replaced, the clock ticks
Serve(op, account_id, out) ==
    /\ now < MaxCalls
    /\ accounts' = out.accounts
    /\ reply' = [op |-> op, account_id |-> account_id, raised |-> out.raised, step |-> out.step]
    /\ now' = now + 1
    /\ UNCHANGED << session, dataset_vars >>

\* the answers of the environment to one callback; an answer that is never
\* asked for, because an earlier step raised, is fixed to the first one
CallbackAnswers ==
    {a \in [exchange : ExpiresIn \cup {0}, platform_found : BOOLEAN,
            fetch : FetchResults(Channels), w : WriteOutcomes] :
        /\ (a.exchange = 0 \/ session = Unset) => a.platform_found
        /\ ~a.platform_found => a.fetch.kind = "error"
        /\ a.fetch.kind # "items" => a.w = "ok"}

HandleOAuthCallback ==
    \E influencer_id \in Influencers, a \in CallbackAnswers :
       Serve("handle_oauth_callback", 0,
             handle_oauth_callback(accounts, session, influencer_id, a.exchange,
                                   a.platform_found, a.fetch, a.w, now))

\* the account ids a caller may pass: those of the table and one more
AccountIds == 1..(Len(accounts) + 1)

\* the channel a stored channel_id stands for
ChannelsOf(table, account_id) ==
    IF account_id \in 1..Len(table)
    THEN {c \in Channels : c.id = table[account_id].platform_data.channel_id}
    ELSE {}

\* the answers of the environment to one refresh of account_id, fixed to
\* the first one where they are never asked for
RefreshAnswers(account_id) ==
    {a \in [fetch : FetchResults(ChannelsOf(accounts, account_id)),
            w : WriteOutcomes, h : WriteOutcomes] :
        /\ a.fetch.kind # "items" => a.w = "ok"
        /\ (a.fetch.kind = "items" /\ a.w = "ok") => a.h = "ok"
        /\ (session = Unset \/ Rejected(accounts, account_id)) =>
              (a.fetch.kind = "error" /\ a.h = "ok")}

RefreshAccountData ==
    \E account_id \in AccountIds :
       \E a \in RefreshAnswers(account_id) :
          Serve("refresh_account_data", account_id,
                refresh_account_data(accounts, session, account_id, a.fetch, a.w, a.h, now))

GetRecentVideos ==
    \E account_id \in AccountIds, api_ok \in BOOLEAN :
       Serve("get_recent_videos", account_id,
             read_account(accounts, session, account_id, api_ok))

GetChannelAnalytics ==
    \E account_id \in AccountIds, api_ok \in BOOLEAN :
       Serve("get_channel_analytics", account_id,
             read_account(accounts, session, account_id, api_ok))

InitService ==
    /\ InitWith({})
    /\ accounts \in InitialTables
    /\ reply = NoReply
    /\ now = 0
    /\ session \in {Unset, Bound}

NextService ==
    \/ HandleOAuthCallback
    \/ RefreshAccountData
    \/ GetRecentVideos
    \/ GetChannelAnalytics

SpecService == InitService /\ [][NextService]_vars

(***************************************************************************)
(* Properties.                                                             *)
(***************************************************************************)
\* the files of a split
FilesOf(s) == IF s = "train" THEN train_files ELSE val_files

\* the split a file was assigned to
SplitOf(f) == IF f \in Range(train_files) THEN "train" ELSE "val"

\* every annotation line now on disk, as <<split, annotation file, line number>>
LinesOnDisk ==
    UNION {UNION {{<<s, a, n>> : n \in 1..Len(labels[s][a])} : a \in DOMAIN labels[s]} : s \in Splits}

\* the last image read was decoded and yielded at least one region
ProcessedWithRegions ==
    /\ image_file # NoFile
    /\ image.decoded
    /\ detected_objects # <<>>

\* C1: placeholder IDs come from one counter shared by the train and the
\* validation pass: the k-th region encoded in the run (from 0) has ID k, the
\* counter equals the number of regions encoded so far (so R regions use
\* exactly 0..R-1), and no two annotation lines on disk carry the same ID.
C1_IdsSequential ==
    /\ class_counter = Len(encoded)
    /\ \A k \in 1..Len(encoded) : encoded[k][3] = k - 1
    /\ \A p, q \in LinesOnDisk :
         labels[p[1]][p[2]][p[3]].class_id = labels[q[1]][q[2]][q[3]].class_id => p = q
    /\ \A p \in LinesOnDisk :
         labels[p[1]][p[2]][p[3]].class_id \in 0..(class_counter - 1)

\* a finished run that encoded regions in both passes
C1_Witness ==
    /\ pc = "done"
    /\ DOMAIN labels["train"] # {}
    /\ DOMAIN labels["val"] # {}
    /\ Len(encoded) >= 3

\* C2: the Label Map has exactly one entry per region encoded during the run,
\* whatever corpus the enumerator accepted (image ids need not be distinct).
C2_LabelMapSize == Len(class_map) = Len(encoded)

\* C3: a decoded image with zero regions changes no artifact (no annotation
\* file, no crop, no Label Map entry, no ID, no copy in either split), and the
\* loop goes on to the next image of the same pass.
C3_ZeroRegionFrame ==
    [][ ( /\ image_file' # image_file
          /\ image'.decoded
          /\ detect_objects(image') = <<>> )
        => ( /\ UNCHANGED artifacts
             /\ pc' = pc
             /\ i' = i + 1 ) ]_vars

\* a finished run whose last image had no region and was dropped, after
\* another image was encoded
C3_Witness ==
    /\ pc = "done"
    /\ image_file # NoFile
    /\ image.decoded
    /\ detected_objects = <<>>
    /\ image_file \notin images["train"] \cup images["val"]
    /\ class_counter > 0

\* every enumerated image is in exactly one of train_files, val_files
Assigned ==
    /\ Len(train_files) + Len(val_files) = Len(image_files)
    /\ \A f \in Range(image_files) : (f \in Range(train_files)) # (f \in Range(val_files))

\* C4: every enumerated image is assigned to exactly one split; the
\* assignment is complete before the first detection, never changes
\* afterwards, and a step writes an image copy or an annotation file only
\* into the directories of the split the image being processed is assigned to.
C4_SplitFixed ==
    /\ [](pc \in {"list", "shuffle", "split"} => image_file = NoFile /\ class_counter = 0)
    /\ [](pc \in {"train", "val", "yaml", "done", "failed"} => Assigned)
    /\ [][ (pc \in {"train", "val", "yaml", "done", "failed"})
              => (image_files' = image_files /\ split_vars' = split_vars) ]_vars
    /\ [][ \A s \in Splits :
              (images'[s] # images[s] \/ labels'[s] # labels[s])
                  => ( /\ image_file' \in Range(FilesOf(s))
                       /\ image_file' \notin Range(FilesOf(CHOOSE t \in Splits : t # s))
                       /\ images'[s] = images[s] \cup {image_file'} ) ]_vars

\* a finished run with images copied into both splits
C4_Witness ==
    /\ pc = "done"
    /\ images["train"] # {}
    /\ images["val"] # {}

\* floor(0.8 * n): the k with 5k <= 4n < 5(k + 1)
FloorFourFifths(n) == CHOOSE k \in 0..n : 5 * k <= 4 * n /\ 4 * n < 5 * (k + 1)

\* C5: the training set is the first floor(0.8 * N) entries of the shuffled
\* ordering, the validation set the remaining entries in the same order;
\* for N = 0 both are empty.
C5_SplitSlices ==
    pc = "train" =>
        LET N == Len(image_files)
            k == FloorFourFifths(N)
        IN  /\ Len(train_files) = k
            /\ Len(val_files) = N - k
            /\ \A n \in 1..k : train_files[n] = image_files[n]
            /\ \A n \in 1..(N - k) : val_files[n] = image_files[k + n]
            /\ (N = 0 => train_files = <<>> /\ val_files = <<>>)

\* five images were split four to one
C5_Witness ==
    /\ pc = "train"
    /\ Len(image_files) = 5
    /\ Len(train_files) = 4
    /\ Len(val_files) = 1

\* the crop files holding pixels of a file
CropsOf(f) == {c \in DOMAIN unknown_objects : unknown_objects[c].of = f}

C8_ManifestNames ==
    yaml # <<>> =>
        /\ Len(yaml[1].names) = class_counter
        /\ \A n \in 1..Len(yaml[1].names) : yaml[1].names[n][1] = n - 1

\* C9: the enumerator selects exactly the directory entries whose name ends
\* in .png, .jpg or .jpeg compared case-insensitively.
C9_CaseInsensitive ==
    pc # "list" => Range(image_files) = {f \in image_dir : EndsWithAny(Lower(f), ImageSuffixes)}

\* C10: an image that cannot be decoded ends the run with an error: nothing
\* was produced for it (no crop, copy, annotation line, ID), the manifest is
\* not written, and the failed run takes no further step, so no later image
\* is processed.
C10_DecodeFailureStops ==
    /\ []( (image_file # NoFile /\ ~image.decoded) =>
             /\ pc = "failed"
             /\ yaml = <<>>
             /\ CropsOf(image_file) = {}
             /\ image_file \notin images["train"] \cup images["val"]
             /\ \A k \in 1..Len(encoded) : encoded[k][1] # image_file
             /\ class_counter = Len(encoded)
             /\ FilesOf(SplitOf(image_file))[i] = image_file )
    /\ [](pc = "failed" => image_file # NoFile /\ ~image.decoded)
    /\ [][pc # "failed"]_vars

\* the run failed at the first of two training images
C10_Witness ==
    /\ pc = "failed"
    /\ Len(train_files) = 2
    /\ image_file = train_files[1]
    /\ ~image.decoded

\* the position of the file being processed in the processing order (the
\* shuffled list: the train slice, then the validation slice); 0 before the
\* first iteration
Position ==
    IF image_file = NoFile
    THEN 0
    ELSE CHOOSE n \in 1..Len(image_files) : image_files[n] = image_file

\* nothing in the dataset directory comes from image f
NoArtifacts(f) ==
    /\ CropsOf(f) = {}
    /\ f \notin images["train"] \cup images["val"]
    /\ \A k \in 1..Len(encoded) : encoded[k][1] # f

\* the dataset directory holds all crops of the image being processed, its
\* copy and its complete annotation file
CompleteArtifacts ==
    LET a == AnnotationName(SplitExtRoot(image_file))
        s == SplitOf(image_file)
    IN  /\ Cardinality(CropsOf(image_file)) = Len(detected_objects)
        /\ image_file \in images[s]
        /\ a \in DOMAIN labels[s]
        /\ Len(labels[s][a]) = Len(detected_objects)

CopiedCount == Cardinality(images["train"]) + Cardinality(images["val"])

\* C12: the images copied into train plus those copied into validation are
\* never more than the enumerated images; an iteration adds one copy exactly
\* when detect_objects returned at least one region; and once both passes
\* have returned, the two numbers are equal if and only if every enumerated
\* image yielded a region.
C12_CopiedAtMostEnumerated ==
    /\ [](CopiedCount <= Len(image_files))
    /\ [][ (pc \in Splits /\ pc' = pc /\ i' = i + 1) =>
             /\ (detected_objects' # <<>> => CopiedCount' = CopiedCount + 1)
             /\ (detected_objects' = <<>> => CopiedCount' = CopiedCount) ]_vars
    /\ []( (pc \in {"yaml", "done"}) =>
             ( CopiedCount = Len(image_files)
               <=> \A f \in Range(image_files) : \E k \in 1..Len(encoded) : encoded[k][1] = f ) )

\* a finished run over three images of which one yielded no region
C12_Witness ==
    /\ pc = "done"
    /\ Len(image_files) = 3
    /\ CopiedCount = 2
    /\ detected_objects = <<>>

\* the quotient q = <<numerator, denominator>> lies in [0, 1]
InUnit(q) == q[2] > 0 /\ 0 <= q[1] /\ q[1] <= q[2]

\* the quotient q equals n / d
EqualsQuotient(q, n, d) == q[1] * d = n * q[2]

\* the rectangle r lies inside an image of width W and height H
Inside(r, W, H) == r[1] >= 0 /\ r[2] >= 0 /\ r[1] + r[3] <= W /\ r[2] + r[4] <= H

\* C13: on every annotation line of the image just processed,
\* cx = (x + w/2)/W, cy = (y + h/2)/H, the width is w/W and the height h/H,
\* and all four lie in [0, 1] whenever the region lies inside the image
\* (x >= 0, y >= 0, x + w <= W, y + h <= H).
C13_Normalized ==
    ProcessedWithRegions =>
        LET a == AnnotationName(SplitExtRoot(image_file))
            s == SplitOf(image_file)
            W == image.shape[1]
            H == image.shape[2]
        IN  \A N \in 1..Len(detected_objects) :
              LET r == detected_objects[N]
                  line == labels[s][a][N]
              IN  /\ EqualsQuotient(line.x_center, 2 * r[1] + r[3], 2 * W)
                  /\ EqualsQuotient(line.y_center, 2 * r[2] + r[4], 2 * H)
                  /\ EqualsQuotient(line.box_width, r[3], W)
                  /\ EqualsQuotient(line.box_height, r[4], H)
                  /\ Inside(r, W, H) =>
                       /\ InUnit(line.x_center)
                       /\ InUnit(line.y_center)
                       /\ InUnit(line.box_width)
                       /\ InUnit(line.box_height)

\* a region that touches the right edge of an image that is higher than wide
C13_Witness ==
    /\ ProcessedWithRegions
    /\ Len(detected_objects) = 1
    /\ detected_objects[1][1] > 0
    /\ detected_objects[1][1] + detected_objects[1][3] = image.shape[1]
    /\ detected_objects[1][2] + detected_objects[1][4] < image.shape[2]
    /\ image.shape[1] < image.shape[2]
    /\ Len(labels["val"][AnnotationName(SplitExtRoot(image_file))]) = 1

\* the positions of the contours wider and higher than 20 pixels
Kept == {n \in 1..Len(image.contours) : image.contours[n][3] > 20 /\ image.contours[n][4] > 20}

\* C14: detect_objects returns the bounding rectangles with w > 20 and
\* h > 20 and no other (20x20 and 15x15 are dropped, 21x21 is kept), in
\* contour order, one per contour: equal or overlapping rectangles are all
\* returned.
C14_SizeFilter ==
    (image_file # NoFile /\ image.decoded) =>
        /\ Len(detected_objects) = Cardinality(Kept)
        /\ \A n \in Kept :
             detected_objects[Cardinality({m \in Kept : m <= n})] = image.contours[n]
        /\ \A n \in 1..Len(detected_objects) :
             /\ detected_objects[n] # <<0, 0, 20, 20>>
             /\ detected_objects[n] # <<0, 0, 15, 15>>
        /\ \A n \in 1..Len(image.contours) :
             image.contours[n] = <<0, 0, 21, 21>> =>
                \E m \in 1..Len(detected_objects) : detected_objects[m] = <<0, 0, 21, 21>>

\* a 20x20 contour followed by a 21x21 contour: only the second is returned
C14_Witness ==
    /\ image_file # NoFile
    /\ image.decoded
    /\ image.contours = << <<0, 0, 20, 20>>, <<0, 0, 21, 21>> >>
    /\ detected_objects = << <<0, 0, 21, 21>> >>

\* the crop files the iteration that has just run may have written
CropPathsWritten ==
    {CroppedFilename(SplitExtRoot(image_file'), idx) : idx \in 0..(Len(detected_objects') - 1)}

\* C15: a run on a populated dataset root starts with class_counter = 0 and
\* an empty class_map, so the first ID it writes is 0 whatever IDs the
\* annotation files on disk carry; no step removes a file; a file changes
\* only when the iteration writes its path (the crops, the copy and the
\* annotation file of the image being processed, and dataset.yaml at the
\* end); and the manifest then written lists class_map, whose keys all
\* come from regions encoded in this run.
C15_RerunKeepsFiles ==
    /\ (class_counter = 0 /\ class_map = <<>>)
    /\ [](class_counter = Len(encoded) /\ (encoded # <<>> => encoded[1][3] = 0))
    /\ [][ /\ DOMAIN unknown_objects \subseteq DOMAIN unknown_objects'
           /\ \A c \in DOMAIN unknown_objects :
                unknown_objects'[c] # unknown_objects[c] => c \in CropPathsWritten
           /\ \A s \in Splits :
                /\ images[s] \subseteq images'[s]
                /\ DOMAIN labels[s] \subseteq DOMAIN labels'[s]
                /\ \A a \in DOMAIN labels[s] :
                     labels'[s][a] # labels[s][a] =>
                        (s = pc /\ a = AnnotationName(SplitExtRoot(image_file')))
           /\ (yaml' # yaml => pc = "yaml") ]_vars
    /\ []( pc = "done" =>
             /\ yaml = <<[header |-> YamlHeader, names |-> YamlNames(class_map)]>>
             /\ \A n \in 1..Len(yaml[1].names) :
                  \E k \in 1..Len(encoded) :
                     /\ yaml[1].names[n][2] = ObjectKey(SplitExtRoot(encoded[k][1]), encoded[k][2] - 1)
                     /\ yaml[1].names[n][1] = encoded[k][3] )

\* a finished re-run that replaced the annotation file of a.png in train,
\* left the annotation file of b.png in validation as the earlier run wrote
\* it, with ID 2 on its line, and wrote a manifest without b_object_1
C15_Witness ==
    /\ pc = "done"
    /\ encoded # <<>>
    /\ AnnotationName(<<"a">>) \in DOMAIN labels["train"]
    /\ labels["train"][AnnotationName(<<"a">>)][1].class_id = 0
    /\ Len(labels["train"][AnnotationName(<<"a">>)]) = 1
    /\ AnnotationName(<<"b">>) \in DOMAIN labels["val"]
    /\ labels["val"][AnnotationName(<<"b">>)][1].class_id = 2
    /\ CroppedFilename(<<"b">>, 0) \in DOMAIN unknown_objects
    /\ \A n \in 1..Len(yaml[1].names) : yaml[1].names[n][2] # ObjectKey(<<"b">>, 0)

\* the positions in encoded of the regions of image f
EncodedOf(f) == {k \in 1..Len(encoded) : encoded[k][1] = f}

\* C16: at the end of a run on an empty dataset root, every copied image
\* has its annotation file <image_id>.txt in its split, holding one line per
\* region of that image with the IDs allocated to that image, and the crop
\* <image_id>_object_<n>.png of each of its regions is the crop cut from
\* that image.
C16_OwnArtifacts ==
    pc = "done" =>
        \A s \in Splits : \A f \in images[s] :
           LET id == SplitExtRoot(f)
               a == AnnotationName(id)
           IN  /\ a \in DOMAIN labels[s]
               /\ Len(labels[s][a]) = Cardinality(EncodedOf(f))
               /\ \A k \in EncodedOf(f) :
                    /\ encoded[k][2] <= Len(labels[s][a])
                    /\ labels[s][a][encoded[k][2]].class_id = encoded[k][3]
                    /\ CroppedFilename(id, encoded[k][2] - 1) \in DOMAIN unknown_objects
                    /\ unknown_objects[CroppedFilename(id, encoded[k][2] - 1)].of = f

\* the position of file f in the shuffled list
IndexOf(f) == CHOOSE n \in 1..Len(image_files) : image_files[n] = f

\* C17: while the train pass runs nothing is written for validation; each
\* iteration processes the next file of its slice, so regions are encoded
\* in the order of the shuffled list (train slice first); and every ID on a
\* line of a train annotation file is smaller than every ID on a line of a
\* validation annotation file.
C17_TrainBeforeVal ==
    /\ []( (pc \in {"list", "shuffle", "split", "train"}) =>
             /\ images["val"] = {}
             /\ labels["val"] = EmptyDir
             /\ \A k \in 1..Len(encoded) : encoded[k][1] \in Range(train_files) )
    /\ [][ (pc \in Splits /\ pc' = pc /\ i' = i + 1) =>
             /\ image_file' = FilesOf(pc)[i]
             /\ \A k \in (Len(encoded) + 1)..Len(encoded') : encoded'[k][1] = image_file'
             /\ images'[pc] \subseteq images[pc] \cup {image_file'} ]_vars
    /\ [](\A k, l \in 1..Len(encoded) :
             k < l => IndexOf(encoded[k][1]) <= IndexOf(encoded[l][1]))
    /\ [](\A p, q \in LinesOnDisk :
             (p[1] = "train" /\ q[1] = "val") =>
                labels[p[1]][p[2]][p[3]].class_id < labels[q[1]][q[2]][q[3]].class_id)

\* a finished run with two training images and one validation image that
\* all left annotation lines
C17_Witness ==
    /\ pc = "done"
    /\ Len(train_files) = 2
    /\ Cardinality(images["train"]) = 2
    /\ Cardinality(images["val"]) = 1
    /\ \E p, q \in LinesOnDisk : p[1] = "train" /\ q[1] = "val"

\* the step serves a call of op
Served(op) == now' = now + 1 /\ reply'.op = op

\* the row after a refresh that went through, for the row before it
Refreshed(before, after, t) ==
    /\ after.account_status = CONNECTED
    /\ after.last_synced = t
    /\ after.followers_count = after.platform_data.stats.subs
    /\ after.engagement_rate = EngagementRate(after.platform_data.stats)
    /\ after.platform_data.channel_id = before.platform_data.channel_id
    /\ after.token = before.token
    /\ after.influencer_id = before.influencer_id
    /\ after.platform_id = before.platform_id
    /\ after.username = before.username

\* C18: a refresh of a CONNECTED account that fails at a step after the
\* status check leaves the account DISCONNECTED and raises
\* ValueError; one that fails at no step leaves it CONNECTED with platform
\* data, follower count, engagement rate and last_synced updated.
C18_DisconnectedOrUpdated ==
    [][ (Served("refresh_account_data") /\ session = Bound
            /\ ~Rejected(accounts, reply'.account_id)) =>
          LET id == reply'.account_id
          IN  IF reply'.step = "none"
              THEN reply'.raised = "none" /\ Refreshed(accounts[id], accounts'[id], now)
              ELSE /\ reply'.raised = "ValueError"
                   /\ accounts'[id].account_status = DISCONNECTED ]_vars

\* what a refresh of a CONNECTED account does: when a step fails, the except
\* block writes DISCONNECTED and raises ValueError, unless its own update
\* raises: then that exception is what the caller gets, and the status is
\* DISCONNECTED only if the update was committed.  Apart from the status,
\* the row is as it was, or as refreshed when the final update raised after
\* its commit.  No other row changes.  Without a failing step the row is
\* refreshed and stays CONNECTED.
RefreshEffect ==
    [][ (Served("refresh_account_data") /\ session = Bound
            /\ ~Rejected(accounts, reply'.account_id)) =>
          LET id == reply'.account_id
          IN  /\ Len(accounts') = Len(accounts)
              /\ \A n \in 1..Len(accounts) : n # id => accounts'[n] = accounts[n]
              /\ IF reply'.step = "none"
                 THEN reply'.raised = "none" /\ Refreshed(accounts[id], accounts'[id], now)
                 ELSE /\ reply'.raised \in {"ValueError", "DBError"}
                      /\ reply'.raised = "ValueError" => accounts'[id].account_status = DISCONNECTED
                      /\ IF reply'.step = "refresh"
                         THEN Refreshed(accounts[id],
                                        [accounts'[id] EXCEPT !.account_status = CONNECTED], now)
                         ELSE [accounts'[id] EXCEPT !.account_status = CONNECTED] = accounts[id] ]_vars

\* C19: refresh_account_data, get_recent_videos and get_channel_analytics
\* raise ValueError and leave the table alone when the account is missing
\* or not CONNECTED, and an account that is not CONNECTED becomes CONNECTED
\* only in a handle_oauth_callback that returns, for its platform and
\* username.
C19_RejectedUntilReconnected ==
    /\ [][ \A op \in {"refresh_account_data", "get_recent_videos", "get_channel_analytics"} :
             (Served(op) /\ Rejected(accounts, reply'.account_id)) =>
                (reply'.raised = "ValueError" /\ accounts' = accounts) ]_vars
    /\ [][ \A n \in 1..Len(accounts) :
             (accounts[n].account_status # CONNECTED
                 /\ accounts'[n].account_status = CONNECTED) =>
                /\ Served("handle_oauth_callback")
                /\ reply'.raised = "none"
                /\ accounts'[n].platform_id = accounts[n].platform_id
                /\ accounts'[n].username = accounts[n].username ]_vars

\* no two rows with the same platform and username
UniqueAccounts ==
    \A m, n \in 1..Len(accounts) :
       (accounts[m].platform_id = accounts[n].platform_id
           /\ accounts[m].username = accounts[n].username) => m = n

\* the step wrote what an upsert for the YouTube platform writes: one row
\* of that platform updated in place, CONNECTED, with its influencer_id,
\* platform and username kept, or one new CONNECTED row appended whose
\* platform and username no row had
Upserted ==
    \/ /\ Len(accounts') = Len(accounts)
       /\ \E id \in 1..Len(accounts) :
            /\ \A n \in 1..Len(accounts) : n # id => accounts'[n] = accounts[n]
            /\ accounts[id].platform_id = YouTubeId
            /\ accounts'[id].platform_id = YouTubeId
            /\ accounts'[id].username = accounts[id].username
            /\ accounts'[id].influencer_id = accounts[id].influencer_id
            /\ accounts'[id].account_status = CONNECTED
            /\ accounts'[id].last_synced = now
    \/ /\ Len(accounts') = Len(accounts) + 1
       /\ SubSeq(accounts', 1, Len(accounts)) = accounts
       /\ accounts'[Len(accounts')].account_status = CONNECTED
       /\ accounts'[Len(accounts')].platform_id = YouTubeId
       /\ \A n \in 1..Len(accounts) :
            ~(accounts[n].platform_id = YouTubeId
                /\ accounts[n].username = accounts'[Len(accounts')].username)

\* C20: a callback that returns has upserted one account; one
\* that fails raises ValueError and leaves the table as it was; the table
\* never holds two accounts with the same platform and username.
C20_UpsertOrNothing ==
    /\ [][ Served("handle_oauth_callback") =>
             /\ reply'.raised \in {"none", "ValueError"}
             /\ reply'.raised = "none" => Upserted
             /\ reply'.raised = "ValueError" => accounts' = accounts ]_vars
    /\ []UniqueAccounts

\* what a callback does: one that returns has upserted one account; one
\* that fails raises ValueError and leaves the table as it was, unless it
\* failed in db.refresh after the commit: then the account is upserted all
\* the same; the table never holds two accounts with the same platform and
\* username.
CallbackEffect ==
    /\ [][ Served("handle_oauth_callback") =>
             /\ reply'.raised \in {"none", "ValueError"}
             /\ reply'.raised = "none" => (reply'.step = "none" /\ Upserted)
             /\ reply'.raised = "ValueError" =>
                  IF reply'.step = "refresh" THEN Upserted ELSE accounts' = accounts ]_vars
    /\ []UniqueAccounts

====
